---- MODULE Spec2Model ----
(***************************************************************************)
(* Model of urkiddennn/tempo: a terminal audio player that analyses the    *)
(* decoded sample blocks on their way to the speaker.                      *)
(*                                                                         *)
(* Three specifications share this module:                                 *)
(*   Spec          the analyzerStreamer of src/main.go (rms / freq) pulled *)
(*                 by the playback thread while getAnalysis reads it;      *)
(*   SpecSpectrum  the analyzerStreamer of src/unnamed/part_000 (banded    *)
(*                 spectrum) with its reader getSpectrum;                  *)
(*   SpecDriver    main / playAndAnalyze of src/main.go with the Bubble    *)
(*                 Tea program, the speaker thread and the ticker          *)
(*                 (SpecQuitFair adds the fairness of the TUI goroutine).  *)
(*                                                                         *)
(* Arithmetic.  Go computes in float64; the model computes exactly where   *)
(* it can (rationals, symbolic square roots) and in fixed point where the  *)
(* code uses cos, sin and log10 (1/1000 units).                            *)
(***************************************************************************)
EXTENDS Integers, Sequences, FiniteSets, TLC

\* ------------------------------------------------------------------ bounds
\* Largest length of the sample slice the playback side hands to Stream.
MaxCap == 4
\* Largest number of frames a decoded track holds.
MaxTrackFrames == 5
\* len(a.buffer); 512 / 2048 in the source, scaled down with the slices.
bufferSize == 4
\* Number of display bands; 30 in the source, scaled down with the slices.
numFrequencyBands == 2
\* Largest number of playable files the scan finds.
MaxFiles == 3
\* Largest number of blocks the upstream of a track yields (driver model).
MaxBlocks == 2
\* Largest number of magnitude bins given to the band stage alone.
MaxBins == 4

\* --------------------------------------------------------------- constants
sampleRate == 44100

VARIABLES
  \* ---- analyzer level (Spec, SpecSpectrum)
  cap,        \* len(samples) of the slice the caller passes
  upLeft,     \* frames the wrapped upstream streamer still holds
  samples,    \* the caller's slice: a sequence of frames <<left, right>>
  n, ok,      \* the named results of the Stream call in progress
  spc,        \* position of the playback thread inside Stream
  buffer,     \* a.buffer
  rms, freq,  \* a.rms, a.freq
  maxIndex,   \* maxIndex of the last dominant-frequency scan
  spectrum,   \* a.spectrum
  ret,        \* the pair the last Stream call returned
  rpc,        \* position of the reader inside getAnalysis / getSpectrum
  rdRms, rdFreq, rdSpectrum,   \* what the reader has loaded
  rdAtEnd,    \* the read in rdRms/rdFreq began after the stream had ended
  upN, upOk, upSamples,  \* what the upstream call returned and left in samples
  calls, pulls,          \* Stream calls begun, upstream pulls made
  okCalls, writes,       \* calls with ok = true, snapshots published
  complete,   \* the zero snapshot and the transform result of every block pulled
  last,       \* the snapshot of the last completed transform
  \* ---- driver level (SpecDriver)
  files,      \* the playlist: per entry [good], whether it opens and decodes
  mainPc, idx,\* position of main / playAndAnalyze, playlist position
  msg,        \* the message main is sending with p.Send
  tuiPc, m,   \* Bubble Tea program state and its model
  shown,      \* playlist position named by the last label the model took
  seqI,       \* per started track: index of beep.Seq (0 analyzer, 1 callback, 2 end)
  mixer,      \* tracks registered with the speaker's mixer
  blk,        \* blocks pulled so far from the upstream of the session
  an,         \* playAndAnalyze's analyzer: [trk, rms, freq] (trk: its entry)
  spkPc,      \* position of the speaker thread
  tick,       \* a tick waits in ticker.C
  played, logged,  \* tracks played to completion, tracks logged as failed
  exitBy,     \* "" while the process runs, else what ended it
  \* ---- band stage alone (SpecBands)
  bMags,      \* magnitudes: per bin the squared magnitude in 1/10^6
  bSpec,      \* a.spectrum
  bVisits,    \* per band the bin indices j its inner loop visited, in order
  bPc         \* position inside the band stage

avars == <<cap, upLeft, samples, n, ok, spc, buffer, rms, freq, maxIndex,
           spectrum, ret, rpc, rdRms, rdFreq, rdSpectrum, rdAtEnd, upN, upOk,
           upSamples, calls, pulls, okCalls, writes, complete, last>>
dvars == <<files, mainPc, idx, msg, tuiPc, m, shown, seqI, mixer, blk,
           an, spkPc, tick, played, logged, exitBy>>
bvars == <<bMags, bSpec, bVisits, bPc>>
vars == <<avars, dvars, bvars>>

\* ------------------------------------------------------------- arithmetic
Min(a, b) == IF a < b THEN a ELSE b
Abs(a) == IF a < 0 THEN -a ELSE a

RECURSIVE GCD(_, _)
GCD(a, b) == IF b = 0 THEN a ELSE GCD(b, a % b)

\* A float64 result: a rational p/q in lowest terms, the square root of one,
\* NaN (0/0) or +Inf (p/0, p > 0).
Num(kind, p, q) == [k |-> kind, p |-> p, q |-> q]
NaN == Num("nan", 0, 0)
Inf == Num("inf", 0, 0)
Zero == Num("rat", 0, 1)

\* p / q in float64 for p >= 0, q >= 0.
Rat(p, q) ==
  IF q = 0 THEN (IF p = 0 THEN NaN ELSE Inf)
  ELSE LET g == GCD(p, q) IN Num("rat", p \div g, q \div g)

ISqrt(x) == CHOOSE r \in 0..x : r * r <= x /\ (r + 1) * (r + 1) > x
IsSquare(x) == ISqrt(x) * ISqrt(x) = x

\* math.Sqrt of a value built by Rat.
Sqrt(v) ==
  IF v.k # "rat" THEN v
  ELSE IF IsSquare(v.p) /\ IsSquare(v.q) THEN Num("rat", ISqrt(v.p), ISqrt(v.q))
  ELSE Num("sqrt", v.p, v.q)

\* 1000*cos(2*pi*j/N) and 1000*sin(2*pi*j/N), j in 0..N-1, rounded.
CosTable ==
  << <<1000>>,
     <<1000, -1000>>,
     <<1000, -500, -500>>,
     <<1000, 0, -1000, 0>>,
     <<1000, 309, -809, -809, 309>>,
     <<1000, 500, -500, -1000, -500, 500>>,
     <<1000, 623, -223, -901, -901, -223, 623>>,
     <<1000, 707, 0, -707, -1000, -707, 0, 707>> >>
SinTable ==
  << <<0>>,
     <<0, 0>>,
     <<0, 866, -866>>,
     <<0, 1000, 0, -1000>>,
     <<0, 951, 588, -588, -951>>,
     <<0, 866, 866, 0, -866, -866>>,
     <<0, 782, 975, 434, -434, -975, -782>>,
     <<0, 707, 1000, 707, 0, -707, -1000, -707>> >>
CosMilli(j, N) == CosTable[N][(j % N) + 1]
SinMilli(j, N) == SinTable[N][(j % N) + 1]

\* ------------------------------------------------------------ the buffers
\* The frames upstream produces: <<left, right>> amplitudes.
Frames == {<<0, 0>>, <<1, 0>>, <<-1, 1>>}
ZeroFrame == <<0, 0>>
ZeroBlock(len) == [i \in 1..len |-> ZeroFrame]

\* Go's copy(dst, src): the first min(len) elements of dst are overwritten.
GoCopy(dst, src) ==
  [i \in 1..Len(dst) |-> IF i <= Len(src) THEN src[i] ELSE dst[i]]

\* The left channel of a slice of frames (sample[0]).
LeftOf(s) == [i \in 1..Len(s) |-> s[i][1]]

RECURSIVE SumSq(_)
SumSq(x) == IF x = <<>> THEN 0 ELSE x[1] * x[1] + SumSq(Tail(x))

\* ------------------------------------------------------ the block transform
\* fft.FFT(x)[k], real and imaginary part, in 1/1000: the DFT of the real
\* sequence x (0-based k).  A slice of length <= 1 is returned as it is.
RECURSIVE ReSum(_, _, _)
ReSum(x, k, i) ==
  IF i > Len(x) THEN 0
  ELSE x[i] * CosMilli(k * (i - 1), Len(x)) + ReSum(x, k, i + 1)
RECURSIVE ImSum(_, _, _)
ImSum(x, k, i) ==
  IF i > Len(x) THEN 0
  ELSE (0 - x[i]) * SinMilli(k * (i - 1), Len(x)) + ImSum(x, k, i + 1)

\* real*real + imag*imag of bin k (the square of the magnitude, in 1/10^6).
MagSq(x, k) ==
  LET re == ReSum(x, k, 1)
      im == ImSum(x, k, 1)
  IN re * re + im * im

\* The magnitude spectrum: len(fftResult)/2 bins.  math.Sqrt is monotone, so
\* the model keeps the squares and compares those.
Magnitudes(x) == [i \in 1..(Len(x) \div 2) |-> MagSq(x, i - 1)]

\* A plausible slip: the scan compares with >= and keeps the last maximum.
RECURSIVE MaxScanKeepsLast(_, _, _, _)
MaxScanKeepsLast(mags, i, maxMag, mi) ==
  IF i > Len(mags) THEN mi
  ELSE IF mags[i] >= maxMag THEN MaxScanKeepsLast(mags, i + 1, mags[i], i - 1)
  ELSE MaxScanKeepsLast(mags, i + 1, maxMag, mi)

\* The dominant-frequency scan: strict >, from maxMag = 0, maxIndex = 0.
RECURSIVE MaxScan(_, _, _, _)
MaxScan(mags, i, maxMag, mi) ==
  IF i > Len(mags) THEN mi
  ELSE IF mags[i] > maxMag THEN MaxScan(mags, i + 1, mags[i], i - 1)
  ELSE MaxScan(mags, i + 1, maxMag, mi)
MaxIndexOf(x) == MaxScan(Magnitudes(x), 1, 0, 0)

\* math.Sqrt(sum / float64(len(samples))) over the slice s.
RmsOf(s) == Sqrt(Rat(SumSq(LeftOf(s)), Len(s)))

\* float64(maxIndex) * sampleRate / float64(len(samples)) over the slice s.
FreqOf(s) == Rat(MaxIndexOf(LeftOf(s)) * sampleRate, Len(s))

\* ================================================= Spec: src/main.go analyzer
\* The driver-level variables take no part in the analyzer specifications.
BandsOff == bMags = <<>> /\ bSpec = <<>> /\ bVisits = <<>> /\ bPc = "off"

\* No analyzer runs (SpecDriver, SpecBands).
AnalyzerOff ==
  /\ cap = 1 /\ upLeft = 0 /\ samples = ZeroBlock(1)
  /\ n = 0 /\ ok = FALSE /\ spc = "off"
  /\ buffer = ZeroBlock(bufferSize)
  /\ rms = Zero /\ freq = Zero /\ maxIndex = 0
  /\ spectrum = <<>> /\ ret = <<0, FALSE>>
  /\ rpc = "off" /\ rdRms = Zero /\ rdFreq = Zero /\ rdSpectrum = <<>>
  /\ rdAtEnd = FALSE
  /\ upN = 0 /\ upOk = FALSE /\ upSamples = ZeroBlock(1)
  /\ calls = 0 /\ pulls = 0 /\ okCalls = 0 /\ writes = 0
  /\ complete = {} /\ last = <<Zero, Zero>>

DriverOff ==
  /\ files = <<>> /\ mainPc = "off" /\ idx = 0 /\ msg = <<>>
  /\ tuiPc = "off" /\ m = <<>> /\ shown = 0 /\ seqI = <<>> /\ mixer = {}
  /\ blk = 0 /\ an = <<>>
  /\ spkPc = [pc |-> "off", t |-> 0] /\ tick = FALSE
  /\ played = <<>> /\ logged = <<>> /\ exitBy = ""

\* &analyzerStreamer{streamer, buffer: make([][2]float64, bufferSize)} and,
\* in part_000, spectrum: make([]float64, numFrequencyBands); the caller's
\* slice starts zeroed (the mixer's fresh array).
InitAnalyzer ==
  /\ cap \in 1..MaxCap
  /\ upLeft \in 0..MaxTrackFrames
  /\ samples = ZeroBlock(cap)
  /\ n = 0 /\ ok = FALSE /\ spc = "idle"
  /\ buffer = ZeroBlock(bufferSize)
  /\ rms = Zero /\ freq = Zero /\ maxIndex = 0
  /\ spectrum = [i \in 1..numFrequencyBands |-> 0]
  /\ ret = <<0, FALSE>>
  /\ rpc = "idle" /\ rdRms = Zero /\ rdFreq = Zero
  /\ rdSpectrum = [i \in 1..numFrequencyBands |-> 0]
  /\ rdAtEnd = FALSE
  /\ upN = 0 /\ upOk = FALSE /\ upSamples = ZeroBlock(cap)
  /\ calls = 0 /\ pulls = 0 /\ okCalls = 0 /\ writes = 0
  /\ complete = {<<Zero, Zero>>}
  /\ last = <<Zero, Zero>>

Init == InitAnalyzer /\ DriverOff /\ BandsOff

\* a.streamer.Stream(samples): the decoder fills the first min(len, left)
\* frames and reports ok = false, n = 0 once drained.  The caller passes its
\* slice as the last call left it, or freshly zeroed (fresh).
UpstreamStream(fresh, w) ==
  LET k == Min(cap, upLeft)
      base == IF fresh THEN ZeroBlock(cap) ELSE samples
  IN /\ n' = k
     /\ ok' = (k > 0)
     /\ samples' = [i \in 1..cap |-> IF i <= k THEN w[i] ELSE base[i]]
     /\ upLeft' = upLeft - k
     /\ upN' = k /\ upOk' = (k > 0) /\ upSamples' = samples'
     /\ pulls' = pulls + 1

\* A plausible slip: the end of the stream clears the stored analysis.
StreamPullClearsAtEnd ==
  /\ spc = "idle"
  /\ \E fresh \in BOOLEAN, w \in [1..Min(cap, upLeft) -> Frames] :
       UpstreamStream(fresh, w)
  /\ calls' = calls + 1
  /\ okCalls' = IF ok' THEN okCalls + 1 ELSE okCalls
  /\ spc' = IF ok' THEN "copy" ELSE "done"
  /\ ret' = IF ok' THEN ret ELSE <<n', ok'>>
  /\ rms' = IF ok' THEN rms ELSE Zero
  /\ freq' = IF ok' THEN freq ELSE Zero
  /\ complete' = IF ok' THEN complete \cup {<<RmsOf(samples'), FreqOf(samples')>>}
                 ELSE complete
  /\ UNCHANGED <<cap, buffer, maxIndex, spectrum, rpc, rdRms, rdFreq,
                 rdSpectrum, rdAtEnd, writes, last, dvars, bvars>>

\* Stream, lines 203-206: the upstream pull and the early return on !ok.
StreamPull ==
  /\ spc = "idle"
  /\ \E fresh \in BOOLEAN, w \in [1..Min(cap, upLeft) -> Frames] :
       UpstreamStream(fresh, w)
  /\ calls' = calls + 1
  /\ okCalls' = IF ok' THEN okCalls + 1 ELSE okCalls
  /\ spc' = IF ok' THEN "copy" ELSE "done"
  /\ ret' = IF ok' THEN ret ELSE <<n', ok'>>
  /\ complete' = IF ok' THEN complete \cup {<<RmsOf(samples'), FreqOf(samples')>>}
                 ELSE complete
  /\ UNCHANGED <<cap, buffer, rms, freq, maxIndex, spectrum, rpc, rdRms,
                 rdFreq, rdSpectrum, rdAtEnd, writes, last, dvars, bvars>>

\* A plausible slip: copy with its arguments swapped.
StreamCopySwapped ==
  /\ spc = "copy"
  /\ samples' = GoCopy(samples, buffer)
  /\ spc' = "rms"
  /\ UNCHANGED <<cap, upLeft, n, ok, buffer, rms, freq, maxIndex, spectrum,
                 ret, rpc, rdRms, rdFreq, rdSpectrum, rdAtEnd, upN, upOk,
                 upSamples, calls, pulls, okCalls, writes, complete, last,
                 dvars, bvars>>

\* Stream, line 209: copy(a.buffer, samples).
StreamCopy ==
  /\ spc = "copy"
  /\ buffer' = GoCopy(buffer, samples)
  /\ samples' = samples
  /\ spc' = "rms"
  /\ UNCHANGED <<cap, upLeft, n, ok, rms, freq, maxIndex, spectrum, ret, rpc,
                 rdRms, rdFreq, rdSpectrum, rdAtEnd, upN, upOk, upSamples,
                 calls, pulls, okCalls, writes, complete, last, dvars, bvars>>

\* Stream, lines 212-216: the store to a.rms; the loop ranges over samples.
StreamRms ==
  /\ spc = "rms"
  /\ rms' = RmsOf(samples)
  /\ spc' = "freq"
  /\ UNCHANGED <<cap, upLeft, samples, n, ok, buffer, freq, maxIndex,
                 spectrum, ret, rpc, rdRms, rdFreq, rdSpectrum, rdAtEnd, upN,
                 upOk, upSamples, calls, pulls, okCalls, writes, complete,
                 last, dvars, bvars>>

\* Stream, lines 219-243: the FFT over samples, the store to a.freq, return.
StreamFreq ==
  /\ spc = "freq"
  /\ maxIndex' = MaxIndexOf(LeftOf(samples))
  /\ freq' = Rat(maxIndex' * sampleRate, Len(samples))
  /\ ret' = <<n, ok>>
  /\ spc' = "idle"
  /\ writes' = writes + 1
  /\ last' = <<rms, freq'>>
  /\ UNCHANGED <<cap, upLeft, samples, n, ok, buffer, rms, spectrum, rpc,
                 rdRms, rdFreq, rdSpectrum, rdAtEnd, upN, upOk, upSamples,
                 calls, pulls, okCalls, complete, dvars, bvars>>

\* getAnalysis, line 251: the two loads of `return a.rms, a.freq`; no lock
\* orders them against the stores of Stream.
ReadRms ==
  /\ rpc = "idle"
  /\ rdRms' = rms
  /\ rdAtEnd' = (spc = "done")
  /\ rpc' = "half"
  /\ UNCHANGED <<cap, upLeft, samples, n, ok, spc, buffer, rms, freq,
                 maxIndex, spectrum, ret, rdFreq, rdSpectrum, upN, upOk,
                 upSamples, calls, pulls, okCalls, writes, complete, last,
                 dvars, bvars>>

ReadFreq ==
  /\ rpc = "half"
  /\ rdFreq' = freq
  /\ rpc' = "idle"
  /\ UNCHANGED <<cap, upLeft, samples, n, ok, spc, buffer, rms, freq,
                 maxIndex, spectrum, ret, rdRms, rdSpectrum, rdAtEnd, upN,
                 upOk, upSamples, calls, pulls, okCalls, writes, complete,
                 last, dvars, bvars>>

Next ==
  \/ StreamPull
  \/ StreamCopy
  \/ StreamRms
  \/ StreamFreq
  \/ ReadRms
  \/ ReadFreq

Spec == Init /\ [][Next]_vars

\* ------------------------------------------------- claims settled under Spec

\* C1: every completed read of getAnalysis returns the (rms, freq) pair of one
\* single completed transform, or the initial zero pair.
C1_ReadIsOneBlock ==
  rpc = "idle" => <<rdRms, rdFreq>> \in complete

\* C2: Stream makes one upstream pull per call, returns the pair upstream
\* returned, and leaves in samples exactly what upstream left there.
C2_ForwardsUpstream ==
  /\ pulls = calls
  /\ calls > 0 => samples = upSamples
  /\ (calls > 0 /\ spc \in {"idle", "done"}) => ret = <<upN, upOk>>

\* C2 witness: a partial block has been returned to the caller.
C2_Witness ==
  /\ spc = "idle" /\ calls > 1
  /\ ret[2] /\ ret[1] >= 1 /\ ret[1] < cap
  /\ \E i \in 1..cap : samples[i] # ZeroFrame

\* C3: after a block of n frames the published rms and freq are those of the
\* first n frames of the slice alone.
C3_OnlyWrittenFrames ==
  (spc = "idle" /\ calls > 0) =>
    /\ rms = RmsOf(SubSeq(samples, 1, n))
    /\ freq = FreqOf(SubSeq(samples, 1, n))

\* C4: after a partial block of n frames the published dominant frequency is
\* maxIndex * sampleRate / n.
C4_FreqScaledByWritten ==
  (spc = "idle" /\ calls > 0 /\ n < cap) =>
    freq = Rat(maxIndex * sampleRate, n)

\* C6: a step that ends with the stream drained changes neither the stored
\* rms and freq nor the private buffer and runs no transform, and a read begun
\* after the end returns the snapshot of the last analysed block.
C6_EndKeepsSnapshot ==
  /\ [][spc' = "done" =>
          (rms' = rms /\ freq' = freq /\ buffer' = buffer /\ writes' = writes)]_vars
  /\ []((spc = "done" /\ rpc = "idle" /\ rdAtEnd) => <<rdRms, rdFreq>> = last)

\* C6 witness: the stream ended after an analysed block and a later read
\* returned that block's non-zero snapshot.
C6_Witness ==
  /\ spc = "done" /\ rpc = "idle" /\ rdAtEnd
  /\ writes >= 1 /\ last # <<Zero, Zero>>
  /\ <<rdRms, rdFreq>> = last

\* C18: between calls, maxIndex is an index among the first N/2 magnitude
\* bins of the transform of the N frames of the slice, it holds the largest
\* magnitude, no lower index does, it is 0 when every magnitude is 0, and
\* the published freq is maxIndex * sampleRate / N.
C18_LowestMaxBin ==
  (spc = "idle" /\ calls > 0) =>
    LET mags == Magnitudes(LeftOf(samples))
        M == Len(mags)
    IN /\ M = cap \div 2
       /\ maxIndex >= 0 /\ (M > 0 => maxIndex < M) /\ (M = 0 => maxIndex = 0)
       /\ \A i \in 1..M : mags[i] <= mags[maxIndex + 1]
       /\ \A i \in 1..maxIndex : mags[i] < mags[maxIndex + 1]
       /\ (\A i \in 1..M : mags[i] = 0) => (maxIndex = 0 /\ freq = Zero)
       /\ freq = Rat(maxIndex * sampleRate, cap)

\* C18 witness: bins 0 and 1 of a 4-frame block hold the same non-zero
\* magnitude and the lower one was published, freq 0.
C18_Witness ==
  /\ spc = "idle" /\ calls > 0 /\ cap = 4
  /\ LET mags == Magnitudes(LeftOf(samples))
     IN mags[1] = mags[2] /\ mags[1] > 0
  /\ maxIndex = 0 /\ freq = Zero

\* ============================== SpecSpectrum: src/unnamed/part_000 analyzer
\* round(1000 * log10(x)) for x in 1..99.
LogTable ==
  <<0, 301, 477, 602, 699, 778, 845, 903, 954, 1000, 1041, 1079, 1114, 1146,
    1176, 1204, 1230, 1255, 1279, 1301, 1322, 1342, 1362, 1380, 1398, 1415,
    1431, 1447, 1462, 1477, 1491, 1505, 1519, 1531, 1544, 1556, 1568, 1580,
    1591, 1602, 1613, 1623, 1633, 1643, 1653, 1663, 1672, 1681, 1690, 1699,
    1708, 1716, 1724, 1732, 1740, 1748, 1756, 1763, 1771, 1778, 1785, 1792,
    1799, 1806, 1813, 1820, 1826, 1833, 1839, 1845, 1851, 1857, 1863, 1869,
    1875, 1881, 1886, 1892, 1898, 1903, 1908, 1914, 1919, 1924, 1929, 1934,
    1940, 1944, 1949, 1954, 1959, 1964, 1968, 1973, 1978, 1982, 1987, 1991,
    1996>>
RECURSIVE Log10Milli(_)
Log10Milli(x) == IF x < 100 THEN LogTable[x] ELSE 1000 + Log10Milli(x \div 10)

\* 20 * math.Log10(mag + 1e-6) in 1/100 dB, from the squared magnitude in
\* 1/10^6: -120 dB at mag = 0, 10*log10(mag^2) otherwise.
Db(magSq) == IF magSq = 0 THEN -12000 ELSE Log10Milli(magSq) - 6000

\* processSize := n, capped at bufferSize (lines 415-418).
ProcessSize(k) == IF k > bufferSize THEN bufferSize ELSE k

\* The magnitudes of the first processSize frames (lines 424-437).
BlockMagnitudes(s, k) == Magnitudes(LeftOf(SubSeq(s, 1, ProcessSize(k))))

\* binsPerBand (lines 451-454).
BinsPerBand(mags) ==
  LET b == Len(mags) \div numFrequencyBands IN IF b = 0 THEN 1 ELSE b

\* The inner loop of band i (0-based): j from i*binsPerBand while
\* j < (i+1)*binsPerBand && j < len(magnitudes); returns <<bandSum, binCount>>.
RECURSIVE BandLoop(_, _, _, _)
BandLoop(mags, i, j, acc) ==
  IF j < (i + 1) * BinsPerBand(mags) /\ j < Len(mags)
  THEN BandLoop(mags, i, j + 1, <<acc[1] + Db(mags[j + 1]), acc[2] + 1>>)
  ELSE acc

\* The bins band i (0-based) sums: the j of its inner loop.
BandBins(mags, i) ==
  {j \in 0..(Len(mags) - 1) :
     j >= i * BinsPerBand(mags) /\ j < (i + 1) * BinsPerBand(mags)}

\* Lines 456-475: a band with bins takes its clamped mean (1/10^4 units),
\* a band without keeps what the slice holds.
BandFill(spec, mags) ==
  [b \in 1..Len(spec) |->
     LET r == BandLoop(mags, b - 1, (b - 1) * BinsPerBand(mags), <<0, 0>>)
         mean == r[1] \div r[2]
     IN IF r[2] > 0 THEN (IF mean < 0 THEN 0 ELSE mean) ELSE spec[b]]

\* Lines 477-481, in place and left to right:
\* a.spectrum[i] = (a.spectrum[i] + a.spectrum[i-1]*0.5) / 1.5.
RECURSIVE SmoothFrom(_, _)
SmoothFrom(spec, i) ==
  IF i > Len(spec) THEN spec
  ELSE SmoothFrom([spec EXCEPT ![i] = (2 * spec[i] + spec[i - 1]) \div 3], i + 1)
Smooth(spec) == SmoothFrom(spec, 2)

\* The spectrum one whole transform of the first k frames of s leaves.
SpectrumOf(s, k) ==
  Smooth(BandFill([b \in 1..numFrequencyBands |-> 0], BlockMagnitudes(s, k)))

\* Stream, lines 408-443: the pull, the return on !ok, the private copy and
\* FFT, and the return when there is no magnitude bin.
SpPull ==
  /\ spc = "idle"
  /\ \E fresh \in BOOLEAN, w \in [1..Min(cap, upLeft) -> Frames] :
       UpstreamStream(fresh, w)
  /\ calls' = calls + 1
  /\ okCalls' = IF ok' THEN okCalls + 1 ELSE okCalls
  /\ buffer' = IF ok' THEN GoCopy(buffer, SubSeq(samples', 1, ProcessSize(n')))
               ELSE buffer
  /\ spc' = IF ~ok' THEN "done"
            ELSE IF Len(BlockMagnitudes(samples', n')) = 0 THEN "idle"
            ELSE "reset"
  /\ ret' = IF spc' = "reset" THEN ret ELSE <<n', ok'>>
  /\ UNCHANGED <<cap, rms, freq, maxIndex, spectrum, rpc, rdRms, rdFreq,
                 rdSpectrum, rdAtEnd, writes, complete, last, dvars, bvars>>

\* Stream, lines 446-448: the reset loop.
SpReset ==
  /\ spc = "reset"
  /\ spectrum' = [b \in 1..Len(spectrum) |-> 0]
  /\ spc' = "bands"
  /\ UNCHANGED <<cap, upLeft, samples, n, ok, buffer, rms, freq, maxIndex,
                 ret, rpc, rdRms, rdFreq, rdSpectrum, rdAtEnd, upN, upOk,
                 upSamples, calls, pulls, okCalls, writes, complete, last,
                 dvars, bvars>>

\* Stream, lines 451-475: the band loop.
SpBands ==
  /\ spc = "bands"
  /\ spectrum' = BandFill(spectrum, BlockMagnitudes(samples, n))
  /\ spc' = "smooth"
  /\ UNCHANGED <<cap, upLeft, samples, n, ok, buffer, rms, freq, maxIndex,
                 ret, rpc, rdRms, rdFreq, rdSpectrum, rdAtEnd, upN, upOk,
                 upSamples, calls, pulls, okCalls, writes, complete, last,
                 dvars, bvars>>

\* Stream, lines 477-483: the smoothing loop and the return.
SpSmooth ==
  /\ spc = "smooth"
  /\ spectrum' = Smooth(spectrum)
  /\ ret' = <<n, ok>>
  /\ spc' = "idle"
  /\ writes' = writes + 1
  /\ last' = spectrum'
  /\ UNCHANGED <<cap, upLeft, samples, n, ok, buffer, rms, freq, maxIndex,
                 rpc, rdRms, rdFreq, rdSpectrum, rdAtEnd, upN, upOk,
                 upSamples, calls, pulls, okCalls, complete, dvars, bvars>>

\* getSpectrum, lines 492-497: the copy of a.spectrum, taken here in one
\* step (an element-wise interleaving only adds outcomes).
SpRead ==
  /\ rdSpectrum' = spectrum
  /\ rdAtEnd' = (spc = "done")
  /\ UNCHANGED <<cap, upLeft, samples, n, ok, spc, buffer, rms, freq,
                 maxIndex, spectrum, ret, rpc, rdRms, rdFreq, upN, upOk,
                 upSamples, calls, pulls, okCalls, writes, complete, last,
                 dvars, bvars>>

NextSpectrum ==
  \/ SpPull
  \/ SpReset
  \/ SpBands
  \/ SpSmooth
  \/ SpRead

SpecSpectrum == Init /\ [][NextSpectrum]_vars

\* ----------------------------------------- claims settled under SpecSpectrum

\* C5: between calls, every call in which upstream returned ok has published
\* exactly one snapshot, and the stored spectrum is the transform of the frames
\* of the last such call.
C5_OneSnapshotPerBlock ==
  (spc = "idle" /\ okCalls > 0) =>
    /\ writes = okCalls
    /\ spectrum = SpectrumOf(samples, n)

\* C14: between calls, when the last pulled block (its n frames) was all
\* zero, the published spectrum has every band at 0.
C14_ZeroBlockGivesZeroBands ==
  (spc = "idle" /\ okCalls > 0 /\ \A i \in 1..n : samples[i] = ZeroFrame) =>
    \A b \in 1..Len(spectrum) : spectrum[b] = 0

\* The snapshot published before the transform in progress: the zero slice
\* of the new analyzer when there was none.
PreviousSnapshot ==
  IF writes = 0 THEN [b \in 1..Len(spectrum) |-> 0] ELSE last

\* C17: the smoothing pass leaves band 0 as the band loop set it and makes
\* every band i > 0 the blend (new_i + 0.5 * p) / 1.5 of its new value with
\* the value p band i-1 had in the previously published snapshot.
C17_SmoothsWithPreviousSnapshot ==
  [][(spc = "smooth" /\ spc' = "idle") =>
       /\ spectrum'[1] = spectrum[1]
       /\ \A i \in 2..Len(spectrum) :
            spectrum'[i] = (2 * spectrum[i] + PreviousSnapshot[i - 1]) \div 3]_vars

\* The snapshot a new analyzer (spectrum: make([]float64, numFrequencyBands))
\* holds after Stream has processed the first k frames of s as its first
\* block.
FreshAnalyzerSnapshot(s, k) ==
  LET zero == [b \in 1..numFrequencyBands |-> 0]
      mags == BlockMagnitudes(s, k)
  IN IF Len(mags) = 0 THEN zero ELSE Smooth(BandFill(zero, mags))

\* C19: whatever blocks an analyzer pulled before, the snapshot it holds when
\* Stream returns for an ok block is the one a new analyzer holds after that
\* block alone.
C19_SnapshotIgnoresHistory ==
  [][(ok' /\ spc' = "idle" /\ (spc = "smooth" \/ calls' # calls)) =>
       spectrum' = FreshAnalyzerSnapshot(samples', n')]_vars

\* ================== SpecBands: the band stage of part_000 Stream on its own
\* Squared magnitudes a bin can hold, in 1/10^6: magnitude 0, 1 and 2.
MagValues == {0, 1000000, 4000000}

\* What a.spectrum can hold when the stage starts: the zero slice of a new
\* analyzer or an earlier snapshot.
EarlierSpectra == {[b \in 1..numFrequencyBands |-> v] : v \in {0, 500}}

\* The inner loop of band i (0-based) as BandLoop runs it, recording the j
\* it visits.
RECURSIVE BandVisits(_, _, _, _)
BandVisits(mags, i, j, acc) ==
  IF j < (i + 1) * BinsPerBand(mags) /\ j < Len(mags)
  THEN BandVisits(mags, i, j + 1, Append(acc, j))
  ELSE acc

\* Stream has just passed the len(magnitudes) == 0 test (lines 441-443).
InitBands ==
  /\ AnalyzerOff /\ DriverOff
  /\ bMags \in UNION {[1..k -> MagValues] : k \in 1..MaxBins}
  /\ bSpec \in EarlierSpectra
  /\ bVisits = [b \in 1..numFrequencyBands |-> <<>>]
  /\ bPc = "reset"

\* Lines 446-448: the reset loop.
BandsReset ==
  /\ bPc = "reset"
  /\ bSpec' = [b \in 1..Len(bSpec) |-> 0]
  /\ bPc' = "bands"
  /\ UNCHANGED <<avars, dvars, bMags, bVisits>>

\* Lines 451-475: binsPerBand and the band loop.
BandsRun ==
  /\ bPc = "bands"
  /\ bSpec' = BandFill(bSpec, bMags)
  /\ bVisits' = [b \in 1..numFrequencyBands |->
                   BandVisits(bMags, b - 1, (b - 1) * BinsPerBand(bMags), <<>>)]
  /\ bPc' = "smooth"
  /\ UNCHANGED <<avars, dvars, bMags>>

\* Lines 477-481: the smoothing loop.
BandsSmooth ==
  /\ bPc = "smooth"
  /\ bSpec' = Smooth(bSpec)
  /\ bPc' = "done"
  /\ UNCHANGED <<avars, dvars, bMags, bVisits>>

NextBands ==
  \/ BandsReset
  \/ BandsRun
  \/ BandsSmooth

SpecBands == InitBands /\ [][NextBands]_vars

\* -------------------------------------------- claims settled under SpecBands

\* C13: once the band loop has run, every magnitude bin index 0..M-1 has
\* been visited by the inner loop of exactly one band, exactly once.
C13_EveryBinInOneBand ==
  bPc \in {"smooth", "done"} =>
    \A j \in 0..(Len(bMags) - 1) :
      Cardinality({bk \in (1..numFrequencyBands) \X (1..Len(bMags)) :
                     /\ bk[2] <= Len(bVisits[bk[1]])
                     /\ bVisits[bk[1]][bk[2]] = j}) = 1

\* ======================================= SpecDriver: src/main.go main loop
\* The features of a block are named by the block they were computed from:
\* [trk, blk] is the value Stream stores for block blk of playlist entry trk,
\* Z the float64 zero value.
Stamp(t, b) == [trk |-> t, blk |-> b]
Z == Stamp(0, 0)

\* The playlist is the sequence of matching paths in the order filepath.Walk
\* visits them; entry i lies in directory (i-1) \div 2 and has base name
\* (i-1) % 2, so entries of different directories can share a base name.
BaseNames == <<"a.mp3", "b.mp3">>
\* filepath.Base(file) of playlist entry i.
Base(i) == BaseNames[((i - 1) % 2) + 1]

\* What scanMusicDir can return: up to MaxFiles entries, each one decodable
\* (good) or not.
Playlists ==
  UNION {[1..k -> [good : BOOLEAN]] : k \in 0..MaxFiles}

Tracks == 1..MaxFiles

\* No analyzer has been created yet.
NoAnalyzer == [trk |-> 0, rms |-> Z, freq |-> Z]

NoMsg == [type |-> "none", currentSong |-> "", rms |-> Z, freq |-> Z]
\* updateMsg{...}: fields left out take the zero value.
UpdateMsg(song, r, f) == [type |-> "update", currentSong |-> song, rms |-> r, freq |-> f]
QuitMsg == [type |-> "quit", currentSong |-> "", rms |-> Z, freq |-> Z]

\* The process at the entry of main; model{currentSong: "None"} (line 104).
InitDriver ==
  /\ AnalyzerOff /\ BandsOff
  /\ files = <<>> /\ mainPc = "init" /\ idx = 0 /\ msg = NoMsg
  /\ tuiPc = "off"
  /\ m = [currentSong |-> "None", rms |-> Z, freq |-> Z]
  /\ shown = 0
  /\ seqI = [t \in Tracks |-> -1]
  /\ mixer = {}
  /\ blk = 0
  /\ an = NoAnalyzer
  /\ spkPc = [pc |-> "idle", t |-> 0]
  /\ tick = FALSE
  /\ played = <<>> /\ logged = <<>>
  /\ exitBy = ""

Running == exitBy = ""

\* ---- main goroutine
\* Lines 98-110: speaker.Init (fatal on error), tea.NewProgram, go p.Start().
MainInit ==
  /\ Running /\ mainPc = "init"
  /\ \/ /\ exitBy' = "fatal"
        /\ UNCHANGED <<mainPc, tuiPc>>
     \/ /\ mainPc' = "scan" /\ tuiPc' = "starting"
        /\ UNCHANGED exitBy
  /\ UNCHANGED <<bvars, avars, files, idx, msg, m, shown, seqI, mixer, blk, an,
                 spkPc, tick, played, logged>>

\* Lines 113-116: scanMusicDir (fatal on error).
MainScan ==
  /\ Running /\ mainPc = "scan"
  /\ \/ /\ exitBy' = "fatal"
        /\ UNCHANGED <<files, mainPc, idx>>
     \/ /\ files' \in Playlists
        /\ mainPc' = "loop" /\ idx' = 1
        /\ UNCHANGED exitBy
  /\ UNCHANGED <<bvars, avars, msg, tuiPc, m, shown, seqI, mixer, blk, an,
                 spkPc, tick, played, logged>>

\* Lines 119-121 and 130: the head of the range loop builds the label
\* message; past the last file main builds the quit message.
MainNextFile ==
  /\ Running /\ mainPc = "loop"
  /\ IF idx <= Len(files)
     THEN /\ msg' = UpdateMsg(Base(idx), Z, Z)
          /\ mainPc' = "label"
     ELSE /\ msg' = QuitMsg
          /\ mainPc' = "quit"
  /\ UNCHANGED <<bvars, avars, files, idx, tuiPc, m, shown, seqI, mixer, blk,
                 an, spkPc, tick, played, logged, exitBy>>

\* A plausible slip: a label message that leaves the displayed values alone.
UpdateKeepsValues(mm, u) ==
  IF u.type = "update"
  THEN IF u.rms = Z /\ u.freq = Z
       THEN [mm EXCEPT !.currentSong = u.currentSong]
       ELSE [currentSong |-> u.currentSong, rms |-> u.rms, freq |-> u.freq]
  ELSE mm

\* model.Update, lines 42-54, for a message sent with p.Send.
Update(mm, u) ==
  IF u.type = "update"
  THEN [currentSong |-> u.currentSong, rms |-> u.rms, freq |-> u.freq]
  ELSE mm

\* p.Send hands the message to the program's event loop and blocks until the
\* loop takes it; the loop then runs Update.
TuiTakes == tuiPc \in {"running", "quitting"}

\* Line 121: p.Send(updateMsg{currentSong: ...}).
SendLabel ==
  /\ Running /\ mainPc = "label" /\ TuiTakes
  /\ m' = Update(m, msg)
  /\ shown' = idx
  /\ msg' = NoMsg
  /\ mainPc' = "open"
  /\ UNCHANGED <<bvars, avars, files, idx, tuiPc, seqI, mixer, blk, an, spkPc,
                 tick, played, logged, exitBy>>

\* Lines 149-159: os.Open and mp3.Decode succeed or return the error.
MainOpen ==
  /\ Running /\ mainPc = "open"
  /\ mainPc' = IF files[idx].good THEN "play" ELSE "failed"
  /\ UNCHANGED <<bvars, avars, files, idx, msg, tuiPc, m, shown, seqI, mixer, blk, an,
                 spkPc, tick, played, logged, exitBy>>

\* A plausible slip: the loop stops at the first file that fails.
MainLogErrBreaks ==
  /\ Running /\ mainPc = "failed"
  /\ logged' = Append(logged, idx)
  /\ msg' = QuitMsg
  /\ mainPc' = "quit"
  /\ UNCHANGED <<bvars, avars, files, idx, tuiPc, m, shown, seqI, mixer, blk,
                 an, spkPc, tick, played, exitBy>>

\* Lines 123-126: log.Printf and continue.
MainLogErr ==
  /\ Running /\ mainPc = "failed"
  /\ logged' = Append(logged, idx)
  /\ idx' = idx + 1
  /\ mainPc' = "loop"
  /\ UNCHANGED <<bvars, avars, files, msg, tuiPc, m, shown, seqI, mixer, blk,
                 an, spkPc, tick, played, exitBy>>

\* A plausible slip: the sessions share one analyzer, which keeps the values
\* of the previous track.
MainPlayReusesAnalyzer ==
  /\ Running /\ mainPc = "play"
  /\ spkPc.pc = "idle"
  /\ an' = [an EXCEPT !.trk = idx]
  /\ blk' = 0
  /\ seqI' = [seqI EXCEPT ![idx] = 0]
  /\ mixer' = mixer \cup {idx}
  /\ tick' = FALSE
  /\ mainPc' = "select"
  /\ UNCHANGED <<bvars, avars, files, idx, msg, tuiPc, m, shown, spkPc, played,
                 logged, exitBy>>

\* Lines 163-176: a fresh analyzer, the done channel, speaker.Play (which
\* takes the speaker's lock) and a new ticker.
MainPlay ==
  /\ Running /\ mainPc = "play"
  /\ spkPc.pc = "idle"
  /\ an' = [trk |-> idx, rms |-> Z, freq |-> Z]
  /\ blk' = 0
  /\ seqI' = [seqI EXCEPT ![idx] = 0]
  /\ mixer' = mixer \cup {idx}
  /\ tick' = FALSE
  /\ mainPc' = "select"
  /\ UNCHANGED <<bvars, avars, files, idx, msg, tuiPc, m, shown, spkPc, played,
                 logged, exitBy>>

\* A plausible slip: the tick case returns as the done case does.
MainTickReturns ==
  /\ Running /\ mainPc = "select" /\ tick
  /\ tick' = FALSE
  /\ idx' = idx + 1
  /\ mainPc' = "loop"
  /\ UNCHANGED <<bvars, avars, files, msg, tuiPc, m, shown, seqI, mixer, blk, an,
                 spkPc, played, logged, exitBy>>

\* Lines 180-188: the tick case: getAnalysis on this call's analyzer and the
\* update message with this call's file name.
MainTick ==
  /\ Running /\ mainPc = "select" /\ tick
  /\ tick' = FALSE
  /\ msg' = UpdateMsg(Base(idx), an.rms, an.freq)
  /\ mainPc' = "send"
  /\ UNCHANGED <<bvars, avars, files, idx, tuiPc, m, shown, seqI, mixer, blk,
                 an, spkPc, played, logged, exitBy>>

\* Line 184: p.Send(updateMsg{rms, freq, currentSong}).
SendUpdate ==
  /\ Running /\ mainPc = "send" /\ TuiTakes
  /\ m' = Update(m, msg)
  /\ shown' = idx
  /\ msg' = NoMsg
  /\ mainPc' = "select"
  /\ UNCHANGED <<bvars, avars, files, idx, tuiPc, seqI, mixer, blk, an, spkPc,
                 tick, played, logged, exitBy>>

\* Lines 170-172 and 189-190: the callback's send on the unbuffered done
\* channel meets the receive of the select; playAndAnalyze returns nil (the
\* deferred ticker.Stop and streamer.Close run; the drained analyzer stays
\* as it is) and the loop moves on.
MainDone ==
  /\ Running /\ mainPc = "select"
  /\ spkPc.pc = "callback" /\ spkPc.t = idx
  /\ seqI' = [seqI EXCEPT ![idx] = 2]
  /\ spkPc' = [pc |-> "mix", t |-> 0]
  /\ played' = Append(played, idx)
  /\ tick' = FALSE
  /\ blk' = 0
  /\ idx' = idx + 1
  /\ mainPc' = "loop"
  /\ UNCHANGED <<bvars, avars, files, msg, tuiPc, m, shown, mixer, an, logged,
                 exitBy>>

\* Line 130: p.Send(tea.Quit()): the event loop takes the quit message and
\* p.Start returns.
SendQuit ==
  /\ Running /\ mainPc = "quit" /\ TuiTakes
  /\ m' = Update(m, msg)
  /\ tuiPc' = "stopped"
  /\ msg' = NoMsg
  /\ mainPc' = "return"
  /\ UNCHANGED <<bvars, avars, files, idx, shown, seqI, mixer, blk, an, spkPc,
                 tick, played, logged, exitBy>>

\* Line 131: main returns and the process ends.
MainReturn ==
  /\ Running /\ mainPc = "return"
  /\ exitBy' = "main"
  /\ UNCHANGED <<bvars, avars, files, mainPc, idx, msg, tuiPc, m, shown, seqI, mixer,
                 blk, an, spkPc, tick, played, logged>>

\* ---- the goroutine of lines 105-110 and the Bubble Tea program
\* Lines 106-108: p.Start() comes up, or fails (log.Fatalf).
TuiStart ==
  /\ Running /\ tuiPc = "starting"
  /\ \/ /\ tuiPc' = "running" /\ UNCHANGED exitBy
     \/ /\ exitBy' = "fatal" /\ UNCHANGED tuiPc
  /\ UNCHANGED <<bvars, avars, files, mainPc, idx, msg, m, shown, seqI, mixer,
                 blk, an, spkPc, tick, played, logged>>

Keys == {"q", "ctrl+c", "x"}

\* model.Update, lines 44-47: a key message; q and ctrl+c return tea.Quit.
UserKey ==
  /\ Running /\ tuiPc = "running"
  /\ \E key \in Keys :
       tuiPc' = IF key = "ctrl+c" \/ key = "q" THEN "quitting" ELSE tuiPc
  /\ UNCHANGED <<bvars, avars, files, mainPc, idx, msg, m, shown, seqI, mixer,
                 blk, an, spkPc, tick, played, logged, exitBy>>

\* The tea.Quit command's message reaches the event loop: p.Start returns.
TuiQuit ==
  /\ Running /\ tuiPc = "quitting"
  /\ tuiPc' = "stopped"
  /\ UNCHANGED <<bvars, avars, files, mainPc, idx, msg, m, shown, seqI, mixer,
                 blk, an, spkPc, tick, played, logged, exitBy>>

\* A plausible slip: the goroutine leaves the exit to main.
TuiExitWaitsForMain ==
  /\ Running /\ tuiPc = "stopped" /\ mainPc = "return"
  /\ exitBy' = "tui"
  /\ UNCHANGED <<bvars, avars, files, mainPc, idx, msg, tuiPc, m, shown, seqI, mixer,
                 blk, an, spkPc, tick, played, logged>>

\* Line 109: os.Exit(0) once p.Start has returned.
TuiExit ==
  /\ Running /\ tuiPc = "stopped"
  /\ exitBy' = "tui"
  /\ UNCHANGED <<bvars, avars, files, mainPc, idx, msg, tuiPc, m, shown, seqI, mixer,
                 blk, an, spkPc, tick, played, logged>>

\* ---- the ticker of line 175: ticker.C holds at most one tick.
TickFire ==
  /\ Running /\ mainPc \in {"select", "send"} /\ ~tick
  /\ tick' = TRUE
  /\ UNCHANGED <<bvars, avars, files, mainPc, idx, msg, tuiPc, m, shown, seqI, mixer,
                 blk, an, spkPc, played, logged, exitBy>>

\* ---- the speaker thread: it takes the speaker's lock, lets the mixer pull
\* every registered streamer, and releases the lock.
SpkBegin ==
  /\ Running /\ spkPc.pc = "idle" /\ mixer # {}
  /\ spkPc' = [pc |-> "mix", t |-> 0]
  /\ UNCHANGED <<bvars, avars, files, mainPc, idx, msg, tuiPc, m, shown, seqI, mixer,
                 blk, an, tick, played, logged, exitBy>>

\* A plausible slip: the completion callback runs after every block instead
\* of after the drained stream.
SpkStreamSignalsEachBlock ==
  /\ Running /\ spkPc.pc = "mix"
  /\ \E t \in mixer :
       /\ seqI[t] = 0 /\ an.trk = t
       /\ \/ /\ blk < MaxBlocks
             /\ blk' = blk + 1
             /\ an' = [an EXCEPT !.rms = Stamp(t, blk + 1)]
             /\ spkPc' = [pc |-> "callback", t |-> t]
             /\ UNCHANGED seqI
          \/ /\ seqI' = [seqI EXCEPT ![t] = 1]
             /\ spkPc' = [pc |-> "callback", t |-> t]
             /\ UNCHANGED <<blk, an>>
  /\ UNCHANGED <<bvars, avars, files, mainPc, idx, msg, tuiPc, m, shown, mixer, tick,
                 played, logged, exitBy>>

\* A plausible slip: the analyzer is played without the completion callback.
SpkStreamDropsCallback ==
  /\ Running /\ spkPc.pc = "mix"
  /\ \E t \in mixer :
       /\ seqI[t] = 0 /\ an.trk = t
       /\ \/ /\ blk < MaxBlocks
             /\ blk' = blk + 1
             /\ an' = [an EXCEPT !.rms = Stamp(t, blk + 1)]
             /\ spkPc' = [pc |-> "freq", t |-> t]
             /\ UNCHANGED seqI
          \/ /\ seqI' = [seqI EXCEPT ![t] = 2]
             /\ UNCHANGED <<blk, an, spkPc>>
  /\ UNCHANGED <<bvars, avars, files, mainPc, idx, msg, tuiPc, m, shown, mixer, tick,
                 played, logged, exitBy>>

\* beep.Seq calls analyzer.Stream (lines 202-216): upstream yields one more
\* block (ok) or is drained (!ok); on ok the store to a.rms, on !ok Seq moves
\* on to the callback, which sends on done (line 171).
SpkStream ==
  /\ Running /\ spkPc.pc = "mix"
  /\ \E t \in mixer :
       /\ seqI[t] = 0 /\ an.trk = t
       /\ \/ /\ blk < MaxBlocks
             /\ blk' = blk + 1
             /\ an' = [an EXCEPT !.rms = Stamp(t, blk + 1)]
             /\ spkPc' = [pc |-> "freq", t |-> t]
             /\ UNCHANGED seqI
          \/ /\ seqI' = [seqI EXCEPT ![t] = 1]
             /\ spkPc' = [pc |-> "callback", t |-> t]
             /\ UNCHANGED <<blk, an>>
  /\ UNCHANGED <<bvars, avars, files, mainPc, idx, msg, tuiPc, m, shown, mixer, tick,
                 played, logged, exitBy>>

\* A plausible slip: freq is stored for the first block only.
SpkStreamFreqKeepsFirst ==
  /\ Running /\ spkPc.pc = "freq"
  /\ an' = IF an.freq = Z THEN [an EXCEPT !.freq = Stamp(spkPc.t, blk)] ELSE an
  /\ spkPc' = [pc |-> "mix", t |-> 0]
  /\ UNCHANGED <<bvars, avars, files, mainPc, idx, msg, tuiPc, m, shown, seqI, mixer,
                 blk, tick, played, logged, exitBy>>

\* analyzer.Stream, lines 218-243: the store to a.freq and the return.
SpkStreamFreq ==
  /\ Running /\ spkPc.pc = "freq"
  /\ an' = [an EXCEPT !.freq = Stamp(spkPc.t, blk)]
  /\ spkPc' = [pc |-> "mix", t |-> 0]
  /\ UNCHANGED <<bvars, avars, files, mainPc, idx, msg, tuiPc, m, shown, seqI, mixer,
                 blk, tick, played, logged, exitBy>>

\* The mixer drops a streamer whose Seq has run out.
SpkDrop ==
  /\ Running /\ spkPc.pc = "mix"
  /\ \E t \in mixer : seqI[t] = 2 /\ mixer' = mixer \ {t}
  /\ UNCHANGED <<bvars, avars, files, mainPc, idx, msg, tuiPc, m, shown, seqI, blk,
                 an, spkPc, tick, played, logged, exitBy>>

\* The mixing round ends and the speaker's lock is released.
SpkEnd ==
  /\ Running /\ spkPc.pc = "mix"
  /\ spkPc' = [pc |-> "idle", t |-> 0]
  /\ UNCHANGED <<bvars, avars, files, mainPc, idx, msg, tuiPc, m, shown, seqI, mixer,
                 blk, an, tick, played, logged, exitBy>>

NextDriver ==
  \/ MainInit
  \/ MainScan
  \/ MainNextFile
  \/ SendLabel
  \/ MainOpen
  \/ MainLogErr
  \/ MainPlay
  \/ MainTick
  \/ SendUpdate
  \/ MainDone
  \/ SendQuit
  \/ MainReturn
  \/ TuiStart
  \/ UserKey
  \/ TuiQuit
  \/ TuiExit
  \/ TickFire
  \/ SpkBegin
  \/ SpkStream
  \/ SpkStreamFreq
  \/ SpkDrop
  \/ SpkEnd

SpecDriver == InitDriver /\ [][NextDriver]_vars

\* The goroutine of lines 105-110 and the program's event loop are always
\* scheduled again.
SpecQuitFair == SpecDriver /\ WF_vars(TuiQuit) /\ WF_vars(TuiExit)

\* Every goroutine is scheduled again and again: main's straight-line steps,
\* the program's start and the speaker thread are weakly fair; the done case
\* of the select (chosen at random among the ready cases), speaker.Play's
\* wait for the speaker's lock and the mixer's pull of a registered streamer
\* are strongly fair.  The upstream of a track is drained after at most
\* MaxBlocks blocks.
SpecLive ==
  /\ SpecDriver
  /\ WF_vars(MainInit \/ MainScan \/ MainNextFile \/ SendLabel \/ MainOpen
               \/ MainLogErr \/ SendUpdate \/ SendQuit \/ MainReturn)
  /\ SF_vars(MainPlay) /\ SF_vars(MainDone)
  /\ WF_vars(TuiStart)
  /\ WF_vars(SpkBegin) /\ SF_vars(SpkStream)
  /\ WF_vars(SpkStreamFreq) /\ WF_vars(SpkEnd)

\* ------------------------------------------- claims settled under SpecDriver

\* The playlist positions below k whose file is decodable (good = TRUE) or
\* not (good = FALSE), in playlist order.
RECURSIVE Entries(_, _, _)
Entries(fs, k, good) ==
  IF k <= 0 THEN <<>>
  ELSE Entries(fs, k - 1, good) \o (IF fs[k].good = good THEN <<k>> ELSE <<>>)

\* C7: a file that fails to open or decode is logged and skipped and never
\* ends the run: at every moment the entries before the current one have
\* been played to completion (the decodable ones, in order, once each) or
\* logged (the others), and main returns only past the last entry.
C7_BadFilesAreSkipped ==
  /\ played = Entries(files, idx - 1, TRUE)
  /\ logged = Entries(files, idx - 1, FALSE)
  /\ \A i \in 1..Len(played) : seqI[played[i]] = 2
  /\ exitBy = "main" => idx = Len(files) + 1
  /\ exitBy = "fatal" => (played = <<>> /\ logged = <<>>)

\* C7 witness: file 2 of 3 failed, files 1 and 3 were played, main returned.
C7_Witness ==
  /\ exitBy = "main" /\ Len(files) = 3
  /\ files[1].good /\ ~files[2].good /\ files[3].good
  /\ played = <<1, 3>> /\ logged = <<2>>
  /\ m.rms = Stamp(3, MaxBlocks)

\* C8: at most one registered track is still being pulled or awaiting its
\* completion signal, it is the current playlist entry, and every other
\* started track has had its completion signal received.
C8_OneSessionAtATime ==
  /\ Cardinality({t \in mixer : seqI[t] \in {0, 1}}) <= 1
  /\ \A t \in Tracks : seqI[t] \in {0, 1} => (t = idx /\ mainPc \in {"select", "send"})
  /\ \A t \in Tracks : (seqI[t] >= 0 /\ t # idx) => (seqI[t] = 2 /\ t < idx)

\* C8 witness: the second session is being pulled after the first one's
\* completion was received (its drained streamer is still registered).
C8_Witness ==
  /\ mixer = {1, 2} /\ seqI[1] = 2 /\ seqI[2] = 0
  /\ played = <<1>> /\ blk > 0 /\ idx = 2

\* C9: the model's label is that of the playlist entry `shown` and its rms
\* and freq are zero or were computed from blocks of that entry; a pending
\* tick update names the entry being played and carries values of its
\* analyzer.
C9_LabelMatchesValues ==
  /\ m.currentSong = (IF shown = 0 THEN "None" ELSE Base(shown))
  /\ \A v \in {m.rms, m.freq} : v = Z \/ v.trk = shown
  /\ mainPc = "send" =>
       /\ msg.currentSong = Base(idx)
       /\ seqI[idx] \in {0, 1}
       /\ \A v \in {msg.rms, msg.freq} : v = Z \/ v.trk = idx

\* C9 witness: after one entry was played and one failed, the model shows a
\* later entry with values of that entry.
C9_Witness ==
  /\ shown >= 2 /\ m.rms.trk = shown /\ m.freq.trk = shown
  /\ played # <<>> /\ logged # <<>>

\* C10: once a quit key has been handled the program never resumes, and the
\* process ends whatever main and the speaker do.
C10_QuitTerminates ==
  /\ [][tuiPc = "quitting" => tuiPc' \in {"quitting", "stopped"}]_vars
  /\ (tuiPc = "quitting") ~> (exitBy # "")

\* C10 witness: the process was ended by the TUI goroutine while a track was
\* being pulled, before its completion signal and with entries still to play.
C10_Witness ==
  /\ exitBy = "tui" /\ mainPc = "select"
  /\ seqI[idx] = 0 /\ blk = 1 /\ idx < Len(files)

\* C11: a track's completion signal is received only after its analyzer
\* returned !ok to the speaker and only once; the driver leaves a started
\* track only by receiving the signal, whatever ticks came before; and no
\* update is built or shown for a track whose signal has been received.
C11_DoneOnceAfterDrain ==
  /\ [][\A t \in Tracks :
          (seqI'[t] = 2 /\ seqI[t] # 2) =>
            /\ seqI[t] = 1 /\ t = idx
            /\ mainPc = "select" /\ mainPc' = "loop"
            /\ played' = Append(played, t)]_vars
  /\ [][(idx' # idx /\ idx \in Tracks /\ seqI[idx] >= 0) => seqI'[idx] = 2]_vars
  /\ [][(m' # m \/ msg'.type = "update") =>
          (mainPc' \in {"open", "label"} \/ seqI'[idx'] \in {0, 1})]_vars
  /\ [](\A i, j \in 1..Len(played) : played[i] = played[j] => i = j)

\* C11 witness: track 1 was shown with values of its second block, its
\* completion signal was then received, and the driver has moved on.
C11_Witness ==
  /\ played = <<1>> /\ seqI[1] = 2 /\ idx = 2
  /\ shown = 1 /\ m.rms = Stamp(1, MaxBlocks)

\* C12: while no block of the current session has been analysed, its
\* analyzer holds rms 0 and freq 0, and a tick read made then builds an
\* update with rms 0 and freq 0; this for every entry of the playlist.
C12_FreshSessionReadsZero ==
  /\ []((mainPc \in {"select", "send"} /\ blk = 0) =>
          (an.trk = idx /\ an.rms = Z /\ an.freq = Z))
  /\ [][(mainPc = "select" /\ mainPc' = "send" /\ blk = 0) =>
          (msg'.rms = Z /\ msg'.freq = Z)]_vars

\* C12 witness: the second played entry is shown with a zero snapshot read
\* before its first block, after the first entry was shown with values.
C12_Witness ==
  /\ played # <<>> /\ seqI[idx] = 0 /\ blk = 0
  /\ mainPc = "select" /\ shown = idx
  /\ m.currentSong = Base(idx) /\ m.rms = Z /\ m.freq = Z
  /\ tick

\* C15: whenever the speaker thread is in the completion callback, sending on
\* the done channel, the driver is at its select and can receive: the send
\* never has to wait for a driver that is forwarding an update.
C15_CallbackNeverWaits ==
  spkPc.pc = "callback" => mainPc = "select"

\* The snapshot Stream has published once it returned for the latest block of
\* the current session: zero before the first block.
LatestOf(t, b) == IF b = 0 THEN Z ELSE Stamp(t, b)

\* C16: a tick read made while the speaker thread is not inside Stream builds
\* an update with the rms and freq of the latest block pulled in the current
\* session, however many blocks were pulled since the previous tick, and
\* with zero values when none was.
C16_TickForwardsLatestBlock ==
  [][(mainPc = "select" /\ mainPc' = "send" /\ spkPc.pc # "freq") =>
       /\ msg'.rms = LatestOf(idx, blk)
       /\ msg'.freq = LatestOf(idx, blk)]_vars

\* C16 witness: the first update of a track is being sent with the values of
\* its second block; no tick was served between the two blocks.
C16_Witness ==
  /\ mainPc = "send" /\ blk = 2 /\ spkPc.pc # "freq"
  /\ msg.rms = Stamp(idx, 2) /\ msg.freq = Stamp(idx, 2)
  /\ shown = idx /\ m.rms = Z /\ m.freq = Z

\* C20: in a run where no quit key is handled and no start-up step is fatal,
\* main gets past the last playlist entry with every entry played or logged,
\* hands the quit message to the program, and the process ends.
C20_RunTerminates ==
  [](tuiPc # "quitting" /\ exitBy # "fatal") =>
    <>(/\ exitBy \in {"main", "tui"}
       /\ mainPc = "return" /\ idx = Len(files) + 1
       /\ Len(played) + Len(logged) = Len(files))

\* C20 witness: three decodable files were played and the process ended after
\* main had handed over the quit message.
C20_Witness ==
  /\ exitBy \in {"main", "tui"} /\ mainPc = "return"
  /\ Len(files) = 3 /\ played = <<1, 2, 3>> /\ logged = <<>>

====
